---- MODULE Spec2Model ----
(***************************************************************************)
(* Model of mice/components/data_validation.py: class DataValidation.       *)
(* One run of initiate_data_validation over three input files (base, train, *)
(* test), the shared report accumulator self.validation_error, the report   *)
(* file and the returned artifact.                                          *)
(***************************************************************************)
EXTENDS Integers, Sequences, FiniteSets, TLC

\* ------------------------------------------------------------------ bounds

\* Number of rows of every non-empty input file.
NRows == 10

\* ------------------------------------------------------------- cell values

\* A cell of a dataframe: the missing marker, a number, or a string.
NaN == [kind |-> "nan"]
Num(v) == [kind |-> "num", v |-> v]
Str(s) == [kind |-> "str", s |-> s]

\* pandas isna() of one cell.
isna(v) == v = NaN

\* ------------------------------------------------------------- dataframes

\* The value None (a dataframe variable that holds no dataframe).
None == [isNone |-> TRUE]

\* A dataframe: ordered column names, the cells of each column, row count.
DataFrame(columns, data, nrows) ==
    [isNone |-> FALSE, columns |-> columns, data |-> data, nrows |-> nrows]

Range(s) == {s[i] : i \in DOMAIN s}

\* Subsequence of the elements of s that are in keep, in the order of s.
RECURSIVE SelectNames(_, _)
SelectNames(s, keep) ==
    IF s = <<>> THEN <<>>
    ELSE IF Head(s) \in keep THEN <<Head(s)>> \o SelectNames(Tail(s), keep)
         ELSE SelectNames(Tail(s), keep)

\* df.drop(list(names), axis=1): the columns named are removed, rows stay.
DropColumns(df, names) ==
    LET kept == Range(df.columns) \ Range(names)
    IN  DataFrame(SelectNames(df.columns, kept),
                  [c \in kept |-> df.data[c]],
                  df.nrows)

\* df[name] = col: replaces an existing column in place.
SetColumn(df, name, col) ==
    DataFrame(df.columns, [df.data EXCEPT ![name] = col], df.nrows)

\* ------------------------------------------------------ categorical encode

GenotypeMap == [s \in {"Control", "Ts65Dn"} |-> IF s = "Control" THEN 0 ELSE 1]
TreatmentMap == [s \in {"Saline", "Memantine"} |-> IF s = "Saline" THEN 0 ELSE 1]
BehaviorMap == [s \in {"C/S", "S/C"} |-> IF s = "C/S" THEN 0 ELSE 1]

\* Series.map(dict) of one cell: a key of the dict gives its code, anything
\* else (an unmapped value, a missing cell) gives the missing marker.
MapValueKeepUnmapped(v, dict) ==
    IF v.kind = "str" /\ v.s \in DOMAIN dict THEN Num(dict[v.s]) ELSE v
MapValue(v, dict) ==
    IF v.kind = "str" /\ v.s \in DOMAIN dict THEN Num(dict[v.s]) ELSE NaN

map(col, dict) == [i \in DOMAIN col |-> MapValue(col[i], dict)]

\* The class labels in sorted order.
ClassOrder == <<"c-CS-m", "c-SC-s", "t-CS-m">>

LabelPos(s) == CHOOSE j \in DOMAIN ClassOrder : ClassOrder[j] = s

\* The labels that occur in the column.
LabelsIn(col) == {col[i].s : i \in {j \in DOMAIN col : col[j].kind = "str"}}

\* LabelEncoder().fit_transform of one cell: the rank of its label among the
\* sorted distinct labels of the column; a missing cell is encoded after every
\* label. The result is always an integer code.
LabelCodeKeepNaN(v, col) ==
    IF v.kind = "str"
    THEN Num(Cardinality({s \in LabelsIn(col) : LabelPos(s) < LabelPos(v.s)}))
    ELSE NaN
LabelCode(v, col) ==
    IF v.kind = "str"
    THEN Num(Cardinality({s \in LabelsIn(col) : LabelPos(s) < LabelPos(v.s)}))
    ELSE Num(Cardinality(LabelsIn(col)))

fit_transform(col) == [i \in DOMAIN col |-> LabelCode(col[i], col)]

\* A class column that mixes labels and missing cells: the encoder either
\* raises (TypeError while sorting strings and floats) or encodes the missing
\* cells as one more class, depending on the library version.
LabelEncoderMayRaise(df) ==
    /\ "class" \in Range(df.columns)
    /\ \E i \in DOMAIN df.data["class"] : isna(df.data["class"][i])
    /\ \E i \in DOMAIN df.data["class"] : ~isna(df.data["class"][i])

\* ------------------------------------------------- drop_missing_value_columns

\* df.isna().sum() of one column.
MissingCount(col) == Cardinality({i \in DOMAIN col : isna(col[i])})

\* null_report > threshold for one column: missing/nrows > t.num/t.den.
\* With no rows the ratio is 0/0 = NaN and every comparison is False.
NullRatioIntDiv(missing, nrows, t) ==
    IF nrows = 0 THEN FALSE ELSE (missing \div nrows) * t.den > t.num
NullRatioAtLeast(missing, nrows, t) ==
    IF nrows = 0 THEN FALSE ELSE missing * t.den >= t.num * nrows
NullRatioAbove(missing, nrows, t) ==
    IF nrows = 0 THEN FALSE ELSE missing * t.den > t.num * nrows

CategoricalColumns == <<"Genotype", "Treatment", "Behavior">>

\* Lines 44-48: the encoded dataframe (all four columns present).
Encoded(df) ==
    LET d1 == SetColumn(df, "Genotype", map(df.data["Genotype"], GenotypeMap))
        d2 == SetColumn(d1, "Treatment", map(d1.data["Treatment"], TreatmentMap))
        d3 == SetColumn(d2, "Behavior", map(d2.data["Behavior"], BehaviorMap))
    IN  SetColumn(d3, "class", fit_transform(d3.data["class"]))

\* Lines 49-52: the names of the columns whose null ratio exceeds threshold.
drop_column_names(df, threshold) ==
    SelectNames(df.columns,
                {c \in Range(df.columns) :
                    NullRatioAbove(MissingCount(df.data[c]), df.nrows, threshold)})

\* The whole function. le_raises: the label encoder raises on this input.
\* Result: raised (MiceException), the recorded list, the returned value.
drop_missing_value_columns(df, threshold, le_raises) ==
    IF \/ df.isNone
       \/ ~(Range(CategoricalColumns) \cup {"class"} \subseteq Range(df.columns))
       \/ le_raises
    THEN [raised |-> TRUE, recorded |-> <<>>, ret |-> None]
    ELSE LET enc == Encoded(df)
             names == drop_column_names(enc, threshold)
             out == DropColumns(enc, names)
         IN  [raised |-> FALSE,
              recorded |-> names,
              ret |-> IF Len(out.columns) = 0 THEN None ELSE out]

\* -------------------------------------------------- is_required_columns_exists

\* Lines 76-80: the base columns that the current dataframe lacks, in base order.
missing_columns_symmetric(base_df, current_df) ==
    SelectNames(base_df.columns \o current_df.columns,
                (Range(base_df.columns) \ Range(current_df.columns))
                  \cup (Range(current_df.columns) \ Range(base_df.columns)))
missing_columns(base_df, current_df) ==
    SelectNames(base_df.columns,
                Range(base_df.columns) \ Range(current_df.columns))

\* Lines 83-86: an entry is written only for a non-empty list.
RecordsMissingAlways(missing) == TRUE
RecordsMissing(missing) == Len(missing) > 0

\* The whole function: raised, whether an entry is written, the list, the
\* returned status.
is_required_columns_exists(base_df, current_df) ==
    IF base_df.isNone \/ current_df.isNone
    THEN [raised |-> TRUE, records |-> FALSE, missing |-> <<>>, ret |-> FALSE]
    ELSE LET missing == missing_columns(base_df, current_df)
         IN  [raised |-> FALSE,
              records |-> RecordsMissing(missing),
              missing |-> missing,
              ret |-> ~(Len(missing) > 0)]

\* ------------------------------------------------------------------ data_drift

\* One call of ks_2samp: it raises, or returns a p-value. P-values are in
\* hundredths; NaN is the p-value of a test the library could not compute.
KsRaise == [raises |-> TRUE, pvalue |-> NaN]
KsP(p) == [raises |-> FALSE, pvalue |-> p]

HasNaN(col) == \E i \in DOMAIN col : isna(col[i])

\* The results ks_2samp can give for two samples. The test itself is a library
\* call: identical complete samples give p = 1.0; an empty sample raises or
\* gives NaN; otherwise the p-value is any of the values around the level.
ks_2samp(base_data, current_data) ==
    IF Len(base_data) = 0 \/ Len(current_data) = 0
    THEN {KsRaise, KsP(NaN)}
    ELSE IF HasNaN(base_data) \/ HasNaN(current_data)
    THEN {KsP(NaN), KsP(Num(5)), KsP(Num(6))}
    ELSE IF base_data = current_data
    THEN {KsP(Num(100))}
    ELSE {KsP(Num(5)), KsP(Num(6))}

\* The significance level 0.05 of line 107, in hundredths.
Alpha == 5

\* Line 107: same_distribution.pvalue > 0.05 (False for a NaN p-value).
SameDistributionAtLeast(p) == p.kind = "num" /\ p.v >= Alpha
SameDistribution(p) == p.kind = "num" /\ p.v > Alpha

\* Lines 109-117: the result recorded for one column.
DriftResult(p) == [pvalues |-> p, same_distribution |-> SameDistribution(p)]

\* The possible test results along the base columns, one per column; a base
\* column the current dataframe lacks raises (KeyError on current_df[column]).
RECURSIVE KsRuns(_, _, _)
KsRuns(cols, base_df, current_df) ==
    IF cols = <<>> THEN {<<>>}
    ELSE LET c == Head(cols)
             outs == IF c \in Range(current_df.columns)
                     THEN ks_2samp(base_df.data[c], current_df.data[c])
                     ELSE {KsRaise}
         IN  {<<o>> \o rest : o \in outs,
                              rest \in KsRuns(Tail(cols), base_df, current_df)}

\* Index of the first column whose test raises, 0 if none does.
FirstRaise(ks) ==
    IF \E i \in DOMAIN ks : ks[i].raises
    THEN CHOOSE i \in DOMAIN ks : ks[i].raises /\ \A j \in 1..(i - 1) : ~ks[j].raises
    ELSE 0

\* The whole function for the test results ks (aligned with base_df.columns).
\* Line 119 sits inside the loop: the entry exists once one column is done,
\* and holds the columns handled before an exception.
data_drift(base_df, current_df, ks) ==
    LET f == FirstRaise(ks)
        done == IF f = 0 THEN Len(ks) ELSE f - 1
        cols == {base_df.columns[i] : i \in 1..done}
        idx(c) == CHOOSE i \in 1..done : base_df.columns[i] = c
    IN  [raised |-> f # 0,
         records |-> done > 0,
         drift_report |-> [c \in cols |-> DriftResult(ks[idx(c)].pvalue)]]

\* --------------------------------------------------- utils.convert_columns_float

\* astype('float') of one cell: numbers and missing cells convert, text that
\* is no number raises ValueError.
Convertible(v) == v.kind # "str"

\* Every column outside exclude_columns is converted to float.
convert_columns_float(df, exclude_columns) ==
    IF df.isNone
    THEN [raised |-> TRUE, ret |-> None]
    ELSE IF \E c \in Range(df.columns) \ Range(exclude_columns) :
               \E i \in DOMAIN df.data[c] : ~Convertible(df.data[c][i])
    THEN [raised |-> TRUE, ret |-> None]
    ELSE [raised |-> FALSE, ret |-> df]

TARGET_COLUMN == "class"

\* ------------------------------------------------------------------ inputs

\* Column names of a full candidate file; the base file has MouseID in front.
FullColumns == <<"A", "B", "C", "Genotype", "Treatment", "Behavior", "class">>

\* The shapes of input file the model draws from. Each differs from the clean
\* file in one respect.
FrameKinds ==
    {"clean", "C20", "C30", "noC", "noBC", "G30", "B30", "class30", "noG",
     "extraD", "naC", "empty"}

ColumnsOf(kind) ==
    CASE kind = "noC" -> SelectNames(FullColumns, Range(FullColumns) \ {"C"})
      [] kind = "noBC" -> SelectNames(FullColumns, Range(FullColumns) \ {"B", "C"})
      [] kind = "noG" -> SelectNames(FullColumns, Range(FullColumns) \ {"Genotype"})
      [] kind = "extraD" -> FullColumns \o <<"D">>
      [] OTHER -> FullColumns

RowsOf(kind) == IF kind = "empty" THEN 0 ELSE NRows

\* The cells of one column of a file of the given kind.
CellsOf(kind, name) ==
    [i \in 1..RowsOf(kind) |->
        CASE name = "Genotype" ->
               IF kind = "G30" /\ i <= 3 THEN Str("Unknown")
               ELSE IF i % 2 = 0 THEN Str("Control") ELSE Str("Ts65Dn")
          [] name = "Treatment" ->
               IF i % 2 = 0 THEN Str("Saline") ELSE Str("Memantine")
          [] name = "Behavior" ->
               IF kind = "B30" /\ i <= 3 THEN Str("Unknown")
               ELSE IF i % 2 = 0 THEN Str("C/S") ELSE Str("S/C")
          [] name = "class" ->
               IF kind = "class30" /\ i <= 3 THEN NaN
               ELSE Str(ClassOrder[(i % Len(ClassOrder)) + 1])
          [] name = "C" ->
               IF kind = "C20" /\ i <= 2 THEN NaN
               ELSE IF kind = "C30" /\ i <= 3 THEN NaN
               ELSE IF kind = "naC" /\ i <= 3 THEN Str("na")
               ELSE Num(i)
          [] name = "MouseID" -> Str("mouse")
          [] OTHER -> Num(i)]

Frame(kind, columns) ==
    DataFrame(columns, [c \in Range(columns) |-> CellsOf(kind, c)], RowsOf(kind))

\* A file on disk: it may not exist.
NoFile == [exists |-> FALSE, kind |-> "absent", df |-> None]
File(kind, columns) == [exists |-> TRUE, kind |-> kind, df |-> Frame(kind, columns)]

CandidateFiles == {NoFile} \cup {File(k, ColumnsOf(k)) : k \in FrameKinds}

BaseFiles ==
    {NoFile, File("noMouseID", FullColumns)}
      \cup {File(k, <<"MouseID">> \o ColumnsOf(k)) : k \in FrameKinds}

\* The configured missing_threshold as a fraction num/den: 0, 0.2, 0.3 and a
\* misconfigured negative value.
Thresholds ==
    {[num |-> 0, den |-> 1], [num |-> 1, den |-> 5], [num |-> 3, den |-> 10],
     [num |-> -1, den |-> 5]}

\* ------------------------------------------------------------------- state

VARIABLES
    files,                    \* the files at base/train/test_file_path
    threshold,                \* data_validation_config.missing_threshold
    pc,                       \* position in initiate_data_validation
    base_df, train_df, test_df,
    validation_error,         \* self.validation_error
    train_df_column_status,   \* "unset", "True", "False"
    test_df_column_status,
    report_file,              \* the file at report_file_path
    artifact,                 \* the DataValidationArtifact returned
    exception,                \* what the caller receives, "none" if nothing
    trace                     \* the operations executed so far, in order

vars == <<files, threshold, pc, base_df, train_df, test_df, validation_error,
          train_df_column_status, test_df_column_status, report_file,
          artifact, exception, trace>>

\* ------------------------------------------------------------- control flow

\* The statements of initiate_data_validation, lines 125-168, in order.
Steps ==
    <<"read_base", "clean_base", "read_train", "read_test", "clean_train",
      "clean_test", "convert", "check_train", "check_test", "drift_train",
      "drift_test", "write_report", "artifact">>

StepsWriteEarly ==
    <<"read_base", "clean_base", "read_train", "read_test", "clean_train",
      "clean_test", "convert", "check_train", "check_test", "write_report",
      "drift_train", "drift_test", "artifact">>

IndexOf(seq, x) == CHOOSE i \in DOMAIN seq : seq[i] = x

AfterIn(seq, step) ==
    IF IndexOf(seq, step) = Len(seq) THEN "done" ELSE seq[IndexOf(seq, step) + 1]

\* The statement that follows a statement that completed.
AfterWriteEarly(step) == AfterIn(StepsWriteEarly, step)
After(step) == AfterIn(Steps, step)

\* Lines 169-170: an exception anywhere leaves the method with MiceException.
HandlerSwallows(step) == After(step)
Handler(step) == "raised"

\* self.validation_error[key] = value
Put(ve, key, value) == (key :> value) @@ ve

Init ==
    /\ files \in [base : BaseFiles, train : CandidateFiles, test : CandidateFiles]
    /\ threshold \in Thresholds
    /\ pc = "read_base"
    /\ base_df = None
    /\ train_df = None
    /\ test_df = None
    /\ validation_error = <<>>
    /\ train_df_column_status = "unset"
    /\ test_df_column_status = "unset"
    /\ report_file = [written |-> FALSE, writes |-> 0, data |-> <<>>]
    /\ artifact = [created |-> FALSE, report_file_path |-> "none"]
    /\ exception = "none"
    /\ trace = <<>>

\* An exception in the statement `step`.
Raise(step) ==
    /\ pc' = Handler(step)
    /\ exception' = "MiceException"
    /\ trace' = Append(trace, step)

\* The statement `step` completed.
Advance(step) ==
    /\ pc' = After(step)
    /\ exception' = exception
    /\ trace' = Append(trace, step)

\* ----------------------------------------------------------------- reading

\* pd.read_csv(path): raises when the file does not exist.
read_csv(file) ==
    IF file.exists THEN [raised |-> FALSE, ret |-> file.df]
    ELSE [raised |-> TRUE, ret |-> None]

\* base_df.replace({"na": np.NAN}): every "na" cell becomes the missing marker.
replace_na(df) ==
    DataFrame(df.columns,
              [c \in Range(df.columns) |->
                  [i \in DOMAIN df.data[c] |->
                      IF df.data[c][i] = Str("na") THEN NaN ELSE df.data[c][i]]],
              df.nrows)

\* Lines 125-127: the base dataframe handed to the cleaning step.
LoadBase(file) ==
    LET r == read_csv(file)
    IN  IF r.raised \/ "MouseID" \notin Range(r.ret.columns)
        THEN [raised |-> TRUE, ret |-> None]
        ELSE [raised |-> FALSE,
              ret |-> replace_na(DropColumns(r.ret, <<"MouseID">>))]

\* The outcomes of the label encoder on df: it can raise only on a class
\* column that mixes labels and missing cells.
LabelEncoderChoices(df) ==
    IF ~df.isNone /\ LabelEncoderMayRaise(df) THEN {FALSE, TRUE} ELSE {FALSE}

\* ----------------------------------------------------------------- actions

ReadBase ==
    /\ pc = "read_base"
    /\ LET r == LoadBase(files.base)
       IN  IF r.raised
           THEN Raise("read_base") /\ UNCHANGED base_df
           ELSE Advance("read_base") /\ base_df' = r.ret
    /\ UNCHANGED <<files, threshold, train_df, test_df, validation_error,
                   train_df_column_status, test_df_column_status, report_file,
                   artifact>>

CleanBase ==
    /\ pc = "clean_base"
    /\ \E le \in LabelEncoderChoices(base_df) :
         LET r == drop_missing_value_columns(base_df, threshold, le)
         IN  IF r.raised
             THEN Raise("clean_base") /\ UNCHANGED <<base_df, validation_error>>
             ELSE /\ Advance("clean_base")
                  /\ base_df' = r.ret
                  /\ validation_error' =
                       Put(validation_error, "missing_values_within_base_dataset",
                           r.recorded)
    /\ UNCHANGED <<files, threshold, train_df, test_df,
                   train_df_column_status, test_df_column_status, report_file,
                   artifact>>

ReadTrain ==
    /\ pc = "read_train"
    /\ LET r == read_csv(files.train)
       IN  IF r.raised
           THEN Raise("read_train") /\ UNCHANGED train_df
           ELSE Advance("read_train") /\ train_df' = r.ret
    /\ UNCHANGED <<files, threshold, base_df, test_df, validation_error,
                   train_df_column_status, test_df_column_status, report_file,
                   artifact>>

ReadTest ==
    /\ pc = "read_test"
    /\ LET r == read_csv(files.test)
       IN  IF r.raised
           THEN Raise("read_test") /\ UNCHANGED test_df
           ELSE Advance("read_test") /\ test_df' = r.ret
    /\ UNCHANGED <<files, threshold, base_df, train_df, validation_error,
                   train_df_column_status, test_df_column_status, report_file,
                   artifact>>

CleanTrain ==
    /\ pc = "clean_train"
    /\ \E le \in LabelEncoderChoices(train_df) :
         LET r == drop_missing_value_columns(train_df, threshold, le)
         IN  IF r.raised
             THEN Raise("clean_train") /\ UNCHANGED <<train_df, validation_error>>
             ELSE /\ Advance("clean_train")
                  /\ train_df' = r.ret
                  /\ validation_error' =
                       Put(validation_error, "missing_values_within_train_dataset",
                           r.recorded)
    /\ UNCHANGED <<files, threshold, base_df, test_df,
                   train_df_column_status, test_df_column_status, report_file,
                   artifact>>

CleanTest ==
    /\ pc = "clean_test"
    /\ \E le \in LabelEncoderChoices(test_df) :
         LET r == drop_missing_value_columns(test_df, threshold, le)
         IN  IF r.raised
             THEN Raise("clean_test") /\ UNCHANGED <<test_df, validation_error>>
             ELSE /\ Advance("clean_test")
                  /\ test_df' = r.ret
                  /\ validation_error' =
                       Put(validation_error, "missing_values_within_test_dataset",
                           r.recorded)
    /\ UNCHANGED <<files, threshold, base_df, train_df,
                   train_df_column_status, test_df_column_status, report_file,
                   artifact>>

\* Lines 143-147: base, train and test are converted in this order; the first
\* conversion that raises ends the run.
Convert ==
    /\ pc = "convert"
    /\ LET exclude_columns == <<TARGET_COLUMN>>
           b == convert_columns_float(base_df, exclude_columns)
           tr == convert_columns_float(train_df, exclude_columns)
           te == convert_columns_float(test_df, exclude_columns)
       IN  IF b.raised
           THEN Raise("convert") /\ UNCHANGED <<base_df, train_df, test_df>>
           ELSE IF tr.raised
           THEN Raise("convert") /\ base_df' = b.ret /\ UNCHANGED <<train_df, test_df>>
           ELSE IF te.raised
           THEN Raise("convert") /\ base_df' = b.ret /\ train_df' = tr.ret
                                 /\ UNCHANGED test_df
           ELSE Advance("convert") /\ base_df' = b.ret /\ train_df' = tr.ret
                                   /\ test_df' = te.ret
    /\ UNCHANGED <<files, threshold, validation_error,
                   train_df_column_status, test_df_column_status, report_file,
                   artifact>>

\* The status a schema check returned, as the text of the Python boolean.
StatusOf(b) == IF b THEN "True" ELSE "False"

CheckTrain ==
    /\ pc = "check_train"
    /\ LET r == is_required_columns_exists(base_df, train_df)
       IN  IF r.raised
           THEN Raise("check_train")
                  /\ UNCHANGED <<validation_error, train_df_column_status>>
           ELSE /\ Advance("check_train")
                /\ train_df_column_status' = StatusOf(r.ret)
                /\ validation_error' =
                     IF r.records
                     THEN Put(validation_error,
                              "missing_columns_within_train_dataset", r.missing)
                     ELSE validation_error
    /\ UNCHANGED <<files, threshold, base_df, train_df, test_df,
                   test_df_column_status, report_file, artifact>>

CheckTest ==
    /\ pc = "check_test"
    /\ LET r == is_required_columns_exists(base_df, test_df)
       IN  IF r.raised
           THEN Raise("check_test")
                  /\ UNCHANGED <<validation_error, test_df_column_status>>
           ELSE /\ Advance("check_test")
                /\ test_df_column_status' = StatusOf(r.ret)
                /\ validation_error' =
                     IF r.records
                     THEN Put(validation_error,
                              "missing_columns_within_test_dataset", r.missing)
                     ELSE validation_error
    /\ UNCHANGED <<files, threshold, base_df, train_df, test_df,
                   train_df_column_status, report_file, artifact>>

\* Lines 154 and 157: drift detection runs only for a status that is True.
RunsDriftAlways(status) == TRUE
RunsDrift(status) == status = "True"

\* The `if` is False: nothing is executed.
Skip(step) ==
    /\ pc' = After(step)
    /\ exception' = exception
    /\ trace' = trace

DriftTrain ==
    /\ pc = "drift_train"
    /\ IF RunsDrift(train_df_column_status)
       THEN \E ks \in KsRuns(base_df.columns, base_df, train_df) :
              LET r == data_drift(base_df, train_df, ks)
              IN  /\ IF r.raised THEN Raise("drift_train")
                                 ELSE Advance("drift_train")
                  /\ validation_error' =
                       IF r.records
                       THEN Put(validation_error,
                                "data_drift_within_train_dataset", r.drift_report)
                       ELSE validation_error
       ELSE Skip("drift_train") /\ UNCHANGED validation_error
    /\ UNCHANGED <<files, threshold, base_df, train_df, test_df,
                   train_df_column_status, test_df_column_status, report_file,
                   artifact>>

DriftTest ==
    /\ pc = "drift_test"
    /\ IF RunsDrift(test_df_column_status)
       THEN \E ks \in KsRuns(base_df.columns, base_df, test_df) :
              LET r == data_drift(base_df, test_df, ks)
              IN  /\ IF r.raised THEN Raise("drift_test")
                                 ELSE Advance("drift_test")
                  /\ validation_error' =
                       IF r.records
                       THEN Put(validation_error,
                                "data_drift_within_test_dataset", r.drift_report)
                       ELSE validation_error
       ELSE Skip("drift_test") /\ UNCHANGED validation_error
    /\ UNCHANGED <<files, threshold, base_df, train_df, test_df,
                   train_df_column_status, test_df_column_status, report_file,
                   artifact>>

\* Lines 163-164: utils.write_yaml_file(report_file_path, self.validation_error).
WriteReport ==
    /\ pc = "write_report"
    /\ report_file' = [written |-> TRUE,
                       writes |-> report_file.writes + 1,
                       data |-> validation_error]
    /\ Advance("write_report")
    /\ UNCHANGED <<files, threshold, base_df, train_df, test_df, validation_error,
                   train_df_column_status, test_df_column_status, artifact>>

\* Lines 166-168: the artifact is built from the report path and returned.
ReturnArtifact ==
    /\ pc = "artifact"
    /\ artifact' = [created |-> TRUE, report_file_path |-> "report_file_path"]
    /\ Advance("artifact")
    /\ UNCHANGED <<files, threshold, base_df, train_df, test_df, validation_error,
                   train_df_column_status, test_df_column_status, report_file>>

Next ==
    \/ ReadBase
    \/ CleanBase
    \/ ReadTrain
    \/ ReadTest
    \/ CleanTrain
    \/ CleanTest
    \/ Convert
    \/ CheckTrain
    \/ CheckTest
    \/ DriftTrain
    \/ DriftTest
    \/ WriteReport
    \/ ReturnArtifact

Spec == Init /\ [][Next]_vars

\* ------------------------------------------------------------ observations

Candidates == {"train", "test"}
Datasets == {"base"} \cup Candidates

\* The dataframe handed to the cleaning step of a dataset.
InputOf(which) ==
    IF which = "base" THEN LoadBase(files.base).ret ELSE files[which].df

\* The dataframe variable of a dataset.
DfOf(which) ==
    IF which = "base" THEN base_df ELSE IF which = "train" THEN train_df ELSE test_df

StatusOfCandidate(which) ==
    IF which = "train" THEN train_df_column_status ELSE test_df_column_status

DroppedKey(which) == "missing_values_within_" \o which \o "_dataset"
MissingKey(which) == "missing_columns_within_" \o which \o "_dataset"
DriftKey(which) == "data_drift_within_" \o which \o "_dataset"

Executed(step) == step \in Range(trace)

\* The statement `step` was executed and ended in an exception.
FailedAt(step) == pc = "raised" /\ trace # <<>> /\ trace[Len(trace)] = step

\* The cleaning step of the dataset was executed and completed.
Cleaned(which) == Executed("clean_" \o which) /\ ~FailedAt("clean_" \o which)

\* t is exceeded by the fraction count/rows (a fraction of no rows exceeds nothing).
Exceeds(count, rows, t) == rows # 0 /\ count * t.den > t.num * rows

\* Missing cells of a column as the input file has them.
RawMissing(df, c) == Cardinality({i \in DOMAIN df.data[c] : df.data[c][i] = NaN})

KeysOf(c) ==
    CASE c = "Genotype" -> {"Control", "Ts65Dn"}
      [] c = "Treatment" -> {"Saline", "Memantine"}
      [] c = "Behavior" -> {"C/S", "S/C"}

\* Cells of a categorical column that are none of the two mapped strings.
Unmapped(df, c) ==
    Cardinality({i \in DOMAIN df.data[c] : df.data[c][i] \notin {Str(k) : k \in KeysOf(c)}})

\* Missing cells of a column once the cleaning step has encoded it.
EncodedMissing(df, c) ==
    IF c \in Range(CategoricalColumns) THEN Unmapped(df, c)
    ELSE IF c = "class" THEN 0
    ELSE RawMissing(df, c)

NoDuplicates(s) == \A i, j \in DOMAIN s : s[i] = s[j] => i = j

\* ------------------------------------------------------------------ claims

\* C1 as stated: the columns removed by drop_missing_value_columns, and the
\* list recorded under the report key, are exactly the columns of the dataset
\* passed in whose missing_count/row_count is strictly above the threshold.
C1_DropsExactlyInputMissing ==
    \A which \in Datasets :
        Cleaned(which) =>
            LET D == InputOf(which)
                over == {c \in Range(D.columns) :
                            Exceeds(RawMissing(D, c), D.nrows, threshold)}
            IN  /\ Range(validation_error[DroppedKey(which)]) = over
                /\ IF DfOf(which).isNone THEN over = Range(D.columns)
                   ELSE Range(DfOf(which).columns) = Range(D.columns) \ over

\* C1 amended: the missing count is taken after the function's own encoding
\* (a cell of Genotype, Treatment or Behavior outside its mapping counts as
\* missing, the label-encoded class column has no missing cell). The columns
\* removed, and the list recorded under the report key, are exactly those
\* whose count/row_count is strictly above the threshold; a ratio equal to the
\* threshold keeps the column.
C1_DropsExactlyEncodedMissing ==
    \A which \in Datasets :
        Cleaned(which) =>
            LET D == InputOf(which)
                over == {c \in Range(D.columns) :
                            Exceeds(EncodedMissing(D, c), D.nrows, threshold)}
                recorded == validation_error[DroppedKey(which)]
            IN  /\ DroppedKey(which) \in DOMAIN validation_error
                /\ Range(recorded) = over
                /\ NoDuplicates(recorded)
                /\ IF DfOf(which).isNone THEN over = Range(D.columns)
                   ELSE Range(DfOf(which).columns) = Range(D.columns) \ over

\* C1 witness: one cleaning step kept a column whose ratio equals a positive
\* threshold, and one cleaning step dropped a column.
C1_Witness ==
    /\ \E which \in Datasets :
         /\ Cleaned(which)
         /\ ~DfOf(which).isNone
         /\ \E c \in Range(DfOf(which).columns) :
              /\ RawMissing(InputOf(which), c) > 0
              /\ RawMissing(InputOf(which), c) * threshold.den
                   = threshold.num * InputOf(which).nrows
    /\ \E which \in Datasets :
         Cleaned(which) /\ "C" \in Range(validation_error[DroppedKey(which)])

\* C2: the schema check of a candidate returned True exactly when every column
\* of the (cleaned) base dataframe is a column of the candidate; when it
\* returned False the list under the report key is exactly base columns minus
\* candidate columns; columns only the candidate has play no part.
C2_ParityIffSubset ==
    \A which \in Candidates :
        (Executed("check_" \o which) /\ ~FailedAt("check_" \o which)) =>
            LET base == Range(base_df.columns)
                cand == Range(DfOf(which).columns)
            IN  /\ StatusOfCandidate(which) \in {"True", "False"}
                /\ (StatusOfCandidate(which) = "True") <=> (base \subseteq cand)
                /\ StatusOfCandidate(which) = "False" =>
                     /\ MissingKey(which) \in DOMAIN validation_error
                     /\ Range(validation_error[MissingKey(which)]) = base \ cand
                     /\ NoDuplicates(validation_error[MissingKey(which)])

\* C2 witness: a check returned False for a candidate that lacks two base
\* columns, and a check returned True for a candidate with a column the base
\* dataframe does not have.
C2_Witness ==
    /\ \E which \in Candidates :
         /\ StatusOfCandidate(which) = "False"
         /\ Len(validation_error[MissingKey(which)]) = 2
    /\ \E which \in Candidates :
         /\ StatusOfCandidate(which) = "True"
         /\ Range(DfOf(which).columns) \ Range(base_df.columns) # {}

\* The end-to-end case of C3 for one candidate: threshold 0.2, a base file with
\* columns A, B, C where C is 30% missing, a candidate file with A and B and
\* without C.
C3_Case(which) ==
    /\ threshold = [num |-> 1, den |-> 5]
    /\ files.base.exists
    /\ {"A", "B", "C"} \subseteq Range(files.base.df.columns)
    /\ files.base.df.nrows > 0
    /\ 10 * RawMissing(files.base.df, "C") = 3 * files.base.df.nrows
    /\ files[which].exists
    /\ {"A", "B"} \subseteq Range(files[which].df.columns)
    /\ "C" \notin Range(files[which].df.columns)

\* C3 as stated: in that case the final report shows C dropped from base, the
\* candidate flagged with missing column C, and no drift entry for it.
C3_CandidateFlaggedNoDrift ==
    \A which \in Candidates :
        (pc = "done" /\ C3_Case(which)) =>
            /\ "C" \in Range(report_file.data[DroppedKey("base")])
            /\ MissingKey(which) \in DOMAIN report_file.data
            /\ "C" \in Range(report_file.data[MissingKey(which)])
            /\ DriftKey(which) \notin DOMAIN report_file.data

\* C3 amended: in that case the final report shows C dropped from base; the
\* schema check runs against the cleaned base, which no longer has C, so the
\* candidate is never flagged with missing column C; and when the candidate's
\* cleaned columns include every cleaned base column, the report has no
\* missing-columns entry for it and has a drift entry for it.
C3_CandidateNotFlagged ==
    \A which \in Candidates :
        (pc = "done" /\ C3_Case(which)) =>
            /\ "C" \in Range(report_file.data[DroppedKey("base")])
            /\ MissingKey(which) \in DOMAIN report_file.data =>
                 "C" \notin Range(report_file.data[MissingKey(which)])
            /\ Range(base_df.columns) \subseteq Range(DfOf(which).columns) =>
                 /\ MissingKey(which) \notin DOMAIN report_file.data
                 /\ DriftKey(which) \in DOMAIN report_file.data

\* C3 witness: a finished run of the case for train, with its drift entry.
C3_Witness ==
    /\ pc = "done"
    /\ C3_Case("train")
    /\ DriftKey("train") \in DOMAIN report_file.data
    /\ MissingKey("train") \notin DOMAIN report_file.data

\* The position of a step in the trace, 0 when it was not executed.
TracePos(step) ==
    IF Executed(step) THEN CHOOSE i \in DOMAIN trace : trace[i] = step ELSE 0

\* C4: drift detection of a candidate is executed only after that candidate's
\* schema check returned True; after a check that returned False it is not
\* executed and no drift entry of that candidate exists, whatever the other
\* candidate's status.
C4_DriftOnlyAfterComplete ==
    \A which \in Candidates :
        /\ Executed("drift_" \o which) =>
             /\ StatusOfCandidate(which) = "True"
             /\ 0 < TracePos("check_" \o which)
             /\ TracePos("check_" \o which) < TracePos("drift_" \o which)
        /\ DriftKey(which) \in DOMAIN validation_error => Executed("drift_" \o which)
        /\ StatusOfCandidate(which) = "False" =>
             /\ ~Executed("drift_" \o which)
             /\ DriftKey(which) \notin DOMAIN validation_error
             /\ DriftKey(which) \notin DOMAIN report_file.data

\* C4 witness: a finished run where the check of train returned False and its
\* drift detection was skipped, while drift detection of test ran.
C4_Witness ==
    /\ pc = "done"
    /\ train_df_column_status = "False"
    /\ ~Executed("drift_train")
    /\ test_df_column_status = "True"
    /\ Executed("drift_test")
    /\ DriftKey("test") \in DOMAIN report_file.data

\* The steps that are executed in every run that completes.
MandatorySteps == Range(Steps) \ {"drift_train", "drift_test"}

\* The dataset's file cannot be loaded or cleaned: it does not exist, or lacks
\* a column the code indexes.
Unusable(which) ==
    \/ ~files[which].exists
    \/ ~(Range(CategoricalColumns) \cup {"class"} \subseteq Range(files[which].df.columns))
    \/ which = "base" /\ "MouseID" \notin Range(files[which].df.columns)

C5_State ==
    /\ exception \in {"none", "MiceException"}
    /\ (exception # "none") <=> (pc = "raised")
    /\ pc = "raised" =>
         /\ ~artifact.created
         /\ ~report_file.written
         /\ report_file.writes = 0
    /\ report_file.written =>
         /\ exception = "none"
         /\ \A step \in MandatorySteps \ {"artifact"} : Executed(step)
    /\ artifact.created => report_file.written
    /\ (\E which \in Datasets : Unusable(which)) => pc # "done"
    /\ (\E which \in Datasets : Unusable(which)) => ~report_file.written

\* C5: a failure at any step aborts the run: the caller receives one
\* MiceException, no later step is executed, no artifact is returned and the
\* report file is not written; the report file exists only when every step
\* succeeded.
C5_FailureAborts == [](C5_State) /\ [][exception = "none"]_vars

\* C5 witness: a run that failed in drift detection of the second candidate,
\* after the first candidate's drift entry was accumulated.
C5_Witness ==
    /\ FailedAt("drift_test")
    /\ DriftKey("train") \in DOMAIN validation_error
    /\ ~report_file.written

\* C6: a completed drift detection records, under its report key, one result
\* for every column of the base dataframe, and same_distribution is true
\* exactly when the column's p-value is strictly greater than 0.05 (5 in the
\* hundredths the p-values are counted in).
C6_DriftVerdicts ==
    \A which \in Candidates :
        (Executed("drift_" \o which) /\ ~FailedAt("drift_" \o which)) =>
            /\ DriftKey(which) \in DOMAIN validation_error
            /\ DOMAIN validation_error[DriftKey(which)] = Range(base_df.columns)
            /\ \A c \in Range(base_df.columns) :
                 LET r == validation_error[DriftKey(which)][c]
                 IN  r.same_distribution <=>
                       (r.pvalues.kind = "num" /\ r.pvalues.v > 5)

\* C6 witness: a recorded drift entry with a column at p = 0.05 (false), a
\* column above it (true), both in one run.
C6_Witness ==
    \E which \in Candidates :
        /\ Executed("drift_" \o which) /\ ~FailedAt("drift_" \o which)
        /\ \E c \in DOMAIN validation_error[DriftKey(which)] :
             /\ validation_error[DriftKey(which)][c].pvalues = Num(5)
             /\ ~validation_error[DriftKey(which)][c].same_distribution
        /\ \E c \in DOMAIN validation_error[DriftKey(which)] :
             /\ validation_error[DriftKey(which)][c].pvalues = Num(100)
             /\ validation_error[DriftKey(which)][c].same_distribution

\* The fixed order of the steps, as positions.
OrderOf(step) ==
    CASE step = "read_base" -> 1
      [] step = "clean_base" -> 2
      [] step = "read_train" -> 3
      [] step = "read_test" -> 4
      [] step = "clean_train" -> 5
      [] step = "clean_test" -> 6
      [] step = "convert" -> 7
      [] step = "check_train" -> 8
      [] step = "check_test" -> 9
      [] step = "drift_train" -> 10
      [] step = "drift_test" -> 11
      [] step = "write_report" -> 12
      [] step = "artifact" -> 13

\* C7: the steps run in the fixed order read base, clean base, read
\* candidates, clean candidates, type-normalize, schema-check, drift-check,
\* write report; the report is persisted exactly once, after every step that
\* writes to the accumulator, and the artifact is created after that.
C7_FixedOrder ==
    /\ \A i, j \in DOMAIN trace : i < j => OrderOf(trace[i]) < OrderOf(trace[j])
    /\ report_file.writes <= 1
    /\ report_file.written =>
         /\ report_file.writes = 1
         /\ report_file.data = validation_error
    /\ artifact.created => report_file.written /\ Executed("write_report")
    /\ pc = "done" =>
         /\ \A step \in MandatorySteps : Executed(step)
         /\ report_file.writes = 1
         /\ artifact.created
         /\ \A which \in Candidates :
              Executed("drift_" \o which) <=> StatusOfCandidate(which) = "True"

\* C7 witness: a finished run in which both drift detections ran.
C7_Witness ==
    /\ pc = "done"
    /\ Executed("drift_train")
    /\ Executed("drift_test")
    /\ DriftKey("test") \in DOMAIN report_file.data

\* C8: unmapped values of a hardcoded categorical column raise no error in the
\* cleaning step of base, train or test: they are missing cells of the encoded
\* column, they count in its missing ratio, and the column is dropped and
\* recorded as dropped when that ratio exceeds the threshold.
C8_UnmappedBecomeMissing ==
    \A which \in Datasets :
        \A c \in Range(CategoricalColumns) :
            (/\ Executed("clean_" \o which)
             /\ ~Unusable(which)
             /\ ~HasNaN(InputOf(which).data["class"])
             /\ Unmapped(InputOf(which), c) > 0) =>
                LET D == InputOf(which)
                    df == DfOf(which)
                IN  /\ ~FailedAt("clean_" \o which)
                    /\ DroppedKey(which) \in DOMAIN validation_error
                    /\ IF Exceeds(Unmapped(D, c), D.nrows, threshold)
                       THEN /\ c \in Range(validation_error[DroppedKey(which)])
                            /\ df.isNone \/ c \notin Range(df.columns)
                       ELSE /\ c \notin Range(validation_error[DroppedKey(which)])
                            /\ c \in Range(df.columns)
                            /\ \A i \in DOMAIN D.data[c] :
                                 (D.data[c][i] \notin {Str(k) : k \in KeysOf(c)})
                                   <=> df.data[c][i] = NaN

\* C8 witness: base lost Behavior and train lost Genotype to unmapped values,
\* and the run went on past both cleaning steps.
C8_Witness ==
    /\ Executed("convert")
    /\ Unmapped(InputOf("base"), "Behavior") > 0
    /\ "Behavior" \in Range(validation_error[DroppedKey("base")])
    /\ Unmapped(InputOf("train"), "Genotype") > 0
    /\ "Genotype" \in Range(validation_error[DroppedKey("train")])

C9_State ==
    pc = "done" =>
        \A which \in Candidates :
            (MissingKey(which) \in DOMAIN report_file.data)
              # (DriftKey(which) \in DOMAIN report_file.data)

C9_Step ==
    /\ (train_df_column_status = "unset" /\ train_df_column_status' = "True")
          => validation_error' = validation_error
    /\ (test_df_column_status = "unset" /\ test_df_column_status' = "True")
          => validation_error' = validation_error

\* C9: after every successful run the persisted report has, for each
\* candidate, exactly one of its missing_columns key and its data_drift key;
\* a schema check that returns True leaves the accumulator unchanged.
C9_ExactlyOneKey == [](C9_State) /\ [][C9_Step]_vars

\* C9 witness: a finished run with the missing_columns key for train and the
\* data_drift key for test.
C9_Witness ==
    /\ pc = "done"
    /\ MissingKey("train") \in DOMAIN report_file.data
    /\ DriftKey("train") \notin DOMAIN report_file.data
    /\ DriftKey("test") \in DOMAIN report_file.data
    /\ MissingKey("test") \notin DOMAIN report_file.data

\* C10: for a threshold >= 0, a cleaning step that completes leaves the class
\* column in the dataframe with no missing cell and does not record it as
\* dropped: the dataframe keeps at least one column and None is not returned.
C10_ClassNeverDropped ==
    \A which \in Datasets :
        (Cleaned(which) /\ threshold.num >= 0) =>
            /\ ~DfOf(which).isNone
            /\ Len(DfOf(which).columns) >= 1
            /\ "class" \in Range(DfOf(which).columns)
            /\ ~HasNaN(DfOf(which).data["class"])
            /\ "class" \notin Range(validation_error[DroppedKey(which)])

\* C10 witness: a class column with missing cells in the file went through a
\* cleaning step that completed, with a threshold >= 0.
C10_Witness ==
    \E which \in Datasets :
        /\ Cleaned(which)
        /\ threshold.num >= 0
        /\ HasNaN(InputOf(which).data["class"])
        /\ "class" \in Range(DfOf(which).columns)

====
